---- MODULE Spec2Model ----
(***************************************************************************)
(* The signup form of Frontend/src/pages/SignupPage.tsx: the form fields,  *)
(* the schema validation run by handleSubmit, the onSubmit handler with    *)
(* its awaited POST /auth/signup, the toast notifications, the delayed     *)
(* navigation to /dashboard and the lifetime of the mounted page.          *)
(*                                                                         *)
(* Strings typed into the form are sequences of one-character strings, so  *)
(* that trim(), toLowerCase(), min(n) and the e-mail pattern are computed  *)
(* character by character.  Notification texts are atomic strings: the     *)
(* code only tests them for being empty or absent.                         *)
(***************************************************************************)
EXTENDS Integers, Sequences, FiniteSets, TLC

VARIABLES
    form,          \* the values of the registered inputs: [name, email, password]
    errors,        \* formState.errors: set of <<field, message>>
    loading,       \* useState(false) at line 42
    showPassword,  \* useState(false) at line 43
    mounted,       \* whether the SignupPage component is mounted
    subs,          \* one record per call of onSubmit: data, payload, promise state, err
    timers,        \* ids of the calls whose setTimeout(navigate, 900) is pending
    log            \* the effects performed so far, in program order

vars == <<form, errors, loading, showPassword, mounted, subs, timers, log>>

(***************************************************************************)
(* Bounds of the model.                                                    *)
(***************************************************************************)
MaxSubmits == 2    \* calls of onSubmit explored per mount

(***************************************************************************)
(* Characters.                                                             *)
(***************************************************************************)
LowerLetters == {"a", "b", "c", "e", "h", "l", "m", "o", "r", "s", "t"}
UpperLetters == {"A", "B", "C", "M", "O", "P"}
Digits       == {"1"}
WhiteSpace   == {" "}
AlphaNum     == LowerLetters \cup UpperLetters \cup Digits

\* String.prototype.toLowerCase on one character
ToLowerChar(c) ==
    CASE c = "A" -> "a"
      [] c = "B" -> "b"
      [] c = "C" -> "c"
      [] c = "M" -> "m"
      [] c = "O" -> "o"
      [] c = "P" -> "p"
      [] OTHER   -> c

ToLowerCase(s) == [i \in 1..Len(s) |-> ToLowerChar(s[i])]

RECURSIVE TrimStart(_)
TrimStart(s) ==
    IF s # <<>> /\ Head(s) \in WhiteSpace THEN TrimStart(Tail(s)) ELSE s

RECURSIVE TrimEnd(_)
TrimEnd(s) ==
    IF s # <<>> /\ s[Len(s)] \in WhiteSpace
    THEN TrimEnd(SubSeq(s, 1, Len(s) - 1))
    ELSE s

\* String.prototype.trim
Trim(s) == TrimEnd(TrimStart(s))

(***************************************************************************)
(* SignupSchema (lines 32-36).                                             *)
(***************************************************************************)
MinNameLen     == 2
MinPasswordLen == 6

NameMessage     == "Name must be at least 2 characters"
EmailMessage    == "Enter a valid email address"
PasswordMessage == "Password must be at least 6 characters"

\* z.string().email(): the pattern
\*   ^(?!\.)(?!.*\.\.)([A-Z0-9_'+\-\.]*)[A-Z0-9_+-]@([A-Z0-9][A-Z0-9\-]*\.)+[A-Z]{2,}$
\* matched case-insensitively against the whole, untrimmed string.
LocalChars  == AlphaNum \cup {"_", "'", "+", "-", "."}
LocalLast   == AlphaNum \cup {"_", "+", "-"}
DomainChars == AlphaNum \cup {"-"}
Alpha       == LowerLetters \cup UpperLetters

NoDoubleDot(s) == \A i \in 1..(Len(s) - 1) : ~(s[i] = "." /\ s[i + 1] = ".")

LocalPartOk(l) ==
    /\ Len(l) >= 1
    /\ \A i \in 1..Len(l) : l[i] \in LocalChars
    /\ l[1] # "."
    /\ l[Len(l)] \in LocalLast

DomainOk(d) ==
    LET dots == {i \in 1..Len(d) : d[i] = "."}
        lastDot == CHOOSE i \in dots : \A j \in dots : j <= i
    IN  /\ dots # {}
        /\ \A i \in 1..Len(d) : d[i] \in DomainChars \cup {"."}
        /\ d[1] \in AlphaNum
        /\ \A i \in dots : i < Len(d) /\ d[i + 1] \in AlphaNum
        /\ Len(d) - lastDot >= 2
        /\ \A i \in (lastDot + 1)..Len(d) : d[i] \in Alpha

EmailOk(s) ==
    LET ats == {i \in 1..Len(s) : s[i] = "@"}
        at  == CHOOSE i \in ats : TRUE
    IN  /\ Cardinality(ats) = 1
        /\ NoDoubleDot(s)
        /\ LocalPartOk(SubSeq(s, 1, at - 1))
        /\ at < Len(s)
        /\ DomainOk(SubSeq(s, at + 1, Len(s)))

\* NameOk measured on the trimmed name
NameOkTrimmed(s) == Len(Trim(s)) >= MinNameLen

NameOk(s)     == Len(s) >= MinNameLen
PasswordOk(s) == Len(s) >= MinPasswordLen

\* zodResolver(SignupSchema): the issues of a SignupForm, one per invalid field
Validate(data) ==
    (IF NameOk(data.name) THEN {} ELSE {<<"name", NameMessage>>})
    \cup (IF EmailOk(data.email) THEN {} ELSE {<<"email", EmailMessage>>})
    \cup (IF PasswordOk(data.password) THEN {} ELSE {<<"password", PasswordMessage>>})

(***************************************************************************)
(* Values the user types into the three inputs.                            *)
(***************************************************************************)
EmptyString == <<>>

NameA       == <<"A">>                                  \* "A"
NameSpA     == <<" ", "A">>                             \* " A"
NameAl      == <<"A", "l">>                             \* "Al"
NameSpAlSp  == <<" ", "A", "l", " ">>                   \* " Al "

EmailNoTld    == <<"a", "@", "b">>                                   \* "a@b"
EmailLower    == <<"a", "@", "b", ".", "c", "o", "m">>               \* "a@b.com"
EmailUpper    == <<"A", "@", "B", ".", "C", "O", "M">>               \* "A@B.COM"
EmailSpUpperSp == <<" ", "A", "@", "B", ".", "C", "O", "M", " ">>    \* " A@B.COM "
EmailDotted   == <<"a", ".", "@", "b", ".", "c", "o", "m">>          \* "a.@b.com"

PasswordShort   == <<"s", "h", "o", "r", "t">>                \* "short"
PasswordSecret1 == <<"s", "e", "c", "r", "e", "t", "1">>      \* "secret1"
PasswordSpaced  == <<" ", "P", "a", "s", "s", "1", " ">>      \* " Pass1 "

Names     == {EmptyString, NameA, NameSpA, NameAl, NameSpAlSp}
Emails    == {EmptyString, EmailNoTld, EmailLower, EmailUpper, EmailSpUpperSp, EmailDotted}
Passwords == {EmptyString, PasswordShort, PasswordSecret1, PasswordSpaced}

\* the values typed in the state-machine specification
TypedNames     == {NameA, NameSpA, NameSpAlSp}
TypedEmails    == {EmailNoTld, EmailUpper}
TypedPasswords == {PasswordShort, PasswordSecret1}

\* useForm defaultValues (lines 51-55)
DefaultValues == [name |-> EmptyString, email |-> EmptyString, password |-> EmptyString]

(***************************************************************************)
(* What the awaited api.post can be rejected with: the shape the catch     *)
(* block reads (interface ApiError, lines 75-82, and Error.message).       *)
(* Undefined stands for an absent property.                                *)
(***************************************************************************)
Undefined == "<undefined>"

ErrShape(hasResponse, hasData, dataMessage, dataError, message) ==
    [hasResponse |-> hasResponse, hasData |-> hasData,
     dataMessage |-> dataMessage, dataError |-> dataError, message |-> message]

DataMessages  == {Undefined, "", "Email taken"}
DataErrors    == {Undefined, "", "x"}
ErrorMessages == {Undefined, "", "Request failed with status code 400"}

ApiErrors ==
    {ErrShape(TRUE, TRUE, dm, de, m) :
        dm \in DataMessages, de \in DataErrors, m \in ErrorMessages}
    \cup {ErrShape(TRUE, FALSE, Undefined, Undefined, m) : m \in ErrorMessages}
    \cup {ErrShape(FALSE, FALSE, Undefined, Undefined, m) :
            m \in ErrorMessages \cup {"Network Error"}}

\* the rejections explored in the state-machine specification
TypedErrors ==
    {ErrShape(TRUE, TRUE, "Email taken", Undefined, "Request failed with status code 400"),
     ErrShape(FALSE, FALSE, Undefined, Undefined, "Network Error")}

NoErr == ErrShape(FALSE, FALSE, Undefined, Undefined, Undefined)

\* a || b in JavaScript, on values that are strings or undefined
Truthy(v) == v # Undefined /\ v # ""
Or(a, b)  == IF Truthy(a) THEN a ELSE b

\* err?.response?.data?.message, err?.response?.data?.error, err?.message
ResponseDataMessage(err) ==
    IF err.hasResponse /\ err.hasData THEN err.dataMessage ELSE Undefined
ResponseDataError(err) ==
    IF err.hasResponse /\ err.hasData THEN err.dataError ELSE Undefined

DefaultErrorMessage == "Signup failed."
SuccessMessage      == "Signup successful! Redirecting to dashboard..."

\* ErrorMessage with the error field tried before the message field
ErrorMessageErrorFirst(err) ==
    Or(ResponseDataError(err),
       Or(ResponseDataMessage(err),
          Or(err.message, DefaultErrorMessage)))

\* ErrorMessage without the error's own message
ErrorMessageNoOwnMessage(err) ==
    Or(ResponseDataMessage(err),
       Or(ResponseDataError(err), DefaultErrorMessage))

\* const errorMessage = ... (lines 84-88)
ErrorMessage(err) ==
    Or(ResponseDataMessage(err),
       Or(ResponseDataError(err),
          Or(err.message, DefaultErrorMessage)))

(***************************************************************************)
(* Effects.  Every handler is the sequence of the effects it performs, in  *)
(* the order of its statements; an action appends that sequence to the log *)
(* and applies it to the state.                                            *)
(***************************************************************************)
Ev(kind, id, arg) == [ev |-> kind, id |-> id, arg |-> arg]

\* the value of `loading` after the setLoading calls among evs
LoadingAfter(l, evs) ==
    LET calls == {i \in 1..Len(evs) : evs[i].ev = "setLoading"}
        last  == CHOOSE i \in calls : \A j \in calls : j <= i
    IN  IF calls = {} THEN l ELSE evs[last].arg = "true"

\* the pending timers after the setTimeout calls among evs
TimersAfter(t, evs) ==
    t \cup {evs[i].id : i \in {j \in 1..Len(evs) : evs[j].ev = "setTimeout"}}

\* Payload with the name sent as typed
PayloadUntrimmed(data) ==
    [name     |-> data.name,
     email    |-> ToLowerCase(Trim(data.email)),
     password |-> data.password]

\* Payload with the e-mail trimmed but not lowered
PayloadNoLowerCase(data) ==
    [name     |-> Trim(data.name),
     email    |-> Trim(data.email),
     password |-> data.password]

\* Payload with the password trimmed as well
PayloadPasswordTrimmed(data) ==
    [name     |-> Trim(data.name),
     email    |-> ToLowerCase(Trim(data.email)),
     password |-> Trim(data.password)]

\* const payload = {...} (lines 61-65)
Payload(data) ==
    [name     |-> Trim(data.name),
     email    |-> ToLowerCase(Trim(data.email)),
     password |-> data.password]

\* OnSubmitEntry with the navigation timer started before the post is awaited
OnSubmitEntryTimerFirst(id) ==
    << Ev("setLoading", id, "true"),
       Ev("setTimeout", id, "900"),
       Ev("post", id, "/auth/signup") >>

\* OnSubmitEntry without setLoading(true)
OnSubmitEntryNotBusy(id) ==
    << Ev("post", id, "/auth/signup") >>

\* onSubmit up to its await (lines 59-67)
OnSubmitEntry(id) ==
    << Ev("setLoading", id, "true"),
       Ev("post", id, "/auth/signup") >>

\* OnSubmitFulfilled with loading reset before the toast
OnSubmitFulfilledResetFirst(id) ==
    << Ev("setLoading", id, "false"),
       Ev("toast.success", id, SuccessMessage),
       Ev("setTimeout", id, "900") >>

\* OnSubmitFulfilled with setLoading(false) left to the catch block
OnSubmitFulfilledStaysBusy(id) ==
    << Ev("toast.success", id, SuccessMessage),
       Ev("setTimeout", id, "900") >>

\* onSubmit after the awaited post is fulfilled (lines 68-73, 94-96)
OnSubmitFulfilled(id) ==
    << Ev("toast.success", id, SuccessMessage),
       Ev("setTimeout", id, "900"),
       Ev("setLoading", id, "false") >>

\* OnSubmitRejected without the finally block
OnSubmitRejectedNoFinally(id, err) ==
    << Ev("toast.error", id, ErrorMessage(err)) >>

\* OnSubmitRejected that also schedules the navigation
OnSubmitRejectedNavigates(id, err) ==
    << Ev("toast.error", id, ErrorMessage(err)),
       Ev("setTimeout", id, "900"),
       Ev("setLoading", id, "false") >>

\* onSubmit after the post is rejected or has thrown (lines 74-96)
OnSubmitRejected(id, err) ==
    << Ev("toast.error", id, ErrorMessage(err)),
       Ev("setLoading", id, "false") >>

\* the callback of setTimeout (line 73)
OnTimeout(id) == << Ev("navigate", id, "/dashboard") >>

NewSub(st, err) ==
    [data |-> form, payload |-> Payload(form), state |-> st, err |-> err]

Pending == {i \in 1..Len(subs) : subs[i].state = "pending"}

\* SubmitEnabled with a submit button that is never disabled
SubmitEnabledWhileLoading == mounted

\* The submit event reaches the form only through its submit button (a click,
\* or Enter in an input, which the browser turns into a click of that button),
\* and the button is rendered disabled while loading (lines 239-245).  The
\* resolver and the entry of onSubmit run in the microtasks of the submit
\* event and React commits setLoading(true) before the next user event, so
\* the rendered button agrees with loading at every user event.  An unmounted
\* page has no form.
SubmitEnabled == mounted /\ ~loading

\* ResolverPasses of a form without a resolver
ResolverAbsent(data) == TRUE

\* ResolverPasses of a schema that checks the name alone
ResolverChecksNameOnly(data) == NameOk(data.name)

\* handleSubmit(onSubmit) (line 173) calls onSubmit only when the resolver
\* (line 50) reports no issue.
ResolverPasses(data) == Validate(data) = {}

Perform(evs) ==
    /\ log' = log \o evs
    /\ loading' = LoadingAfter(loading, evs)
    /\ timers' = TimersAfter(timers, evs)

(***************************************************************************)
(* Initial state: the page has just been mounted.                          *)
(***************************************************************************)
Init ==
    /\ form = DefaultValues
    /\ errors = {}
    /\ loading = FALSE
    /\ showPassword = FALSE
    /\ mounted = TRUE
    /\ subs = <<>>
    /\ timers = {}
    /\ log = <<>>

(***************************************************************************)
(* Actions.                                                                *)
(***************************************************************************)
\* register("name") onChange (line 183)
ChangeName(S) ==
    /\ mounted
    /\ \E v \in S : form' = [form EXCEPT !.name = v]
    /\ UNCHANGED <<errors, loading, showPassword, mounted, subs, timers, log>>

\* register("email") onChange (line 201)
ChangeEmail(S) ==
    /\ mounted
    /\ \E v \in S : form' = [form EXCEPT !.email = v]
    /\ UNCHANGED <<errors, loading, showPassword, mounted, subs, timers, log>>

\* register("password") onChange (line 220)
ChangePassword(S) ==
    /\ mounted
    /\ \E v \in S : form' = [form EXCEPT !.password = v]
    /\ UNCHANGED <<errors, loading, showPassword, mounted, subs, timers, log>>

\* ToggleShowPassword of a button without type="button": inside the form it
\* is a submit button, and its click also runs the resolver
ToggleShowPasswordSubmits ==
    /\ mounted
    /\ showPassword' = ~showPassword
    /\ errors' = Validate(form)
    /\ UNCHANGED <<form, loading, mounted, subs, timers, log>>

\* onClick={() => setShowPassword((v) => !v)} (line 228)
ToggleShowPassword ==
    /\ mounted
    /\ showPassword' = ~showPassword
    /\ UNCHANGED <<form, errors, loading, mounted, subs, timers, log>>

\* a submit event whose values the resolver rejects: only errors are set
SubmitInvalid ==
    /\ SubmitEnabled
    /\ ~ResolverPasses(form)
    /\ errors' = Validate(form)
    /\ UNCHANGED <<form, loading, showPassword, mounted, subs, timers, log>>

\* a submit event whose values pass: onSubmit runs up to its await
SubmitValid ==
    /\ SubmitEnabled
    /\ ResolverPasses(form)
    /\ Len(subs) < MaxSubmits
    /\ errors' = Validate(form)
    /\ subs' = Append(subs, NewSub("pending", NoErr))
    /\ Perform(OnSubmitEntry(Len(subs) + 1))
    /\ UNCHANGED <<form, showPassword, mounted>>

\* a submit event whose values pass, and api.post throws instead of returning
\* a promise: the catch and finally blocks run in the same turn
SubmitPostThrows(Errs) ==
    /\ SubmitEnabled
    /\ ResolverPasses(form)
    /\ Len(subs) < MaxSubmits
    /\ errors' = Validate(form)
    /\ \E err \in Errs :
          LET id == Len(subs) + 1
          IN  /\ subs' = Append(subs, NewSub("threw", err))
              /\ Perform(OnSubmitEntry(id)
                         \o << Ev("settled", id, "threw") >>
                         \o OnSubmitRejected(id, err))
    /\ UNCHANGED <<form, showPassword, mounted>>

\* the awaited post is fulfilled (2xx): the rest of the try block, then finally
Fulfil ==
    \E id \in Pending :
        /\ subs' = [subs EXCEPT ![id].state = "fulfilled"]
        /\ Perform(<< Ev("settled", id, "fulfilled") >> \o OnSubmitFulfilled(id))
        /\ UNCHANGED <<form, errors, showPassword, mounted>>

\* the awaited post is rejected: the catch block, then finally
Reject(Errs) ==
    \E id \in Pending : \E err \in Errs :
        /\ subs' = [subs EXCEPT ![id].state = "rejected", ![id].err = err]
        /\ Perform(<< Ev("settled", id, "rejected") >> \o OnSubmitRejected(id, err))
        /\ UNCHANGED <<form, errors, showPassword, mounted>>

\* a pending navigation timer fires; the route change unmounts the page
TimerFires ==
    \E id \in timers :
        /\ timers' = timers \ {id}
        /\ log' = log \o OnTimeout(id)
                      \o (IF mounted THEN << Ev("unmount", 0, "") >> ELSE << >>)
        /\ mounted' = FALSE
        /\ UNCHANGED <<form, errors, loading, showPassword, subs>>

\* the router leaves the signup route (history navigation): React unmounts the
\* page; promises and timers created by onSubmit stay alive
Unmount ==
    /\ mounted
    /\ mounted' = FALSE
    /\ log' = Append(log, Ev("unmount", 0, ""))
    /\ UNCHANGED <<form, errors, loading, showPassword, subs, timers>>

(***************************************************************************)
(* Spec: the state machine of one mount, with the typed values and the     *)
(* rejections restricted to a few of each kind.                            *)
(***************************************************************************)
Next ==
    \/ ChangeName(TypedNames)
    \/ ChangeEmail(TypedEmails)
    \/ ChangePassword(TypedPasswords)
    \/ ToggleShowPassword
    \/ SubmitInvalid
    \/ SubmitValid
    \/ SubmitPostThrows(TypedErrors)
    \/ Fulfil
    \/ Reject(TypedErrors)
    \/ TimerFires
    \/ Unmount

Spec == Init /\ [][Next]_vars

(***************************************************************************)
(* SpecLive: the state machine with the collaborator answering every       *)
(* outstanding request eventually (the awaited promise is settled).        *)
(***************************************************************************)
Settle == Fulfil \/ Reject(TypedErrors)

\* the user has typed a name and a password and then edits the e-mail only
InitLive ==
    /\ form = [name |-> NameSpAlSp, email |-> EmptyString, password |-> PasswordSecret1]
    /\ errors = {}
    /\ loading = FALSE
    /\ showPassword = FALSE
    /\ mounted = TRUE
    /\ subs = <<>>
    /\ timers = {}
    /\ log = <<>>

NextLive ==
    \/ ChangeEmail(TypedEmails)
    \/ SubmitInvalid
    \/ SubmitValid
    \/ SubmitPostThrows(TypedErrors)
    \/ Fulfil
    \/ Reject(TypedErrors)
    \/ TimerFires
    \/ Unmount

SpecLive == InitLive /\ [][NextLive]_vars /\ WF_vars(Settle)

(***************************************************************************)
(* SpecInputs: every combination of the sample values is in the form when  *)
(* the user submits.                                                       *)
(***************************************************************************)
InitInputs ==
    /\ form \in [name : Names, email : Emails, password : Passwords]
    /\ errors = {}
    /\ loading = FALSE
    /\ showPassword = FALSE
    /\ mounted = TRUE
    /\ subs = <<>>
    /\ timers = {}
    /\ log = <<>>

NextInputs ==
    \/ SubmitInvalid
    \/ SubmitValid
    \/ Fulfil
    \/ Reject(TypedErrors)
    \/ TimerFires

SpecInputs == InitInputs /\ [][NextInputs]_vars

(***************************************************************************)
(* SpecErrors: a valid form is submitted and the post fails in every shape *)
(* the catch block distinguishes.                                          *)
(***************************************************************************)
InitErrors ==
    /\ form = [name |-> NameAl, email |-> EmailLower, password |-> PasswordSecret1]
    /\ errors = {}
    /\ loading = FALSE
    /\ showPassword = FALSE
    /\ mounted = TRUE
    /\ subs = <<>>
    /\ timers = {}
    /\ log = <<>>

NextErrors ==
    \/ SubmitValid
    \/ SubmitPostThrows(ApiErrors)
    \/ Reject(ApiErrors)

SpecErrors == InitErrors /\ [][NextErrors]_vars

(***************************************************************************)
(* Reading the log.                                                        *)
(***************************************************************************)
EvIdx(kind, id) == {i \in 1..Len(log) : log[i].ev = kind /\ log[i].id = id}
Ids             == 1..Len(subs)
Posted          == {id \in Ids : EvIdx("post", id) # {}}
SettledIds      == {id \in Ids : EvIdx("settled", id) # {}}
Outstanding     == Posted \ SettledIds
Toasts(id)      == EvIdx("toast.success", id) \cup EvIdx("toast.error", id)
Resets(id)      == {i \in EvIdx("setLoading", id) : log[i].arg = "false"}
ErrorToasts     == {i \in 1..Len(log) : log[i].ev = "toast.error"}
RulesHold(data) == /\ Len(data.name) >= 2
                   /\ EmailOk(data.email)
                   /\ Len(data.password) >= 6

(***************************************************************************)
(* C1  Single flight: in every reachable state at most one request to      *)
(* /auth/signup has been issued and not yet settled, whatever submit       *)
(* events, responses, timers and unmounts have occurred.                   *)
(***************************************************************************)
SingleFlight == Cardinality(Outstanding) <= 1

\* a second call of onSubmit is in flight after the first one has settled
SingleFlightWitness ==
    /\ loading
    /\ Len(subs) >= 2
    /\ Cardinality(Outstanding) = 1
    /\ 1 \in SettledIds

(***************************************************************************)
(* C2  Every request that has been issued carries values that satisfy all  *)
(* three rules; a submit of values that violate a rule issues no request.  *)
(***************************************************************************)
OnlyValidPosted ==
    \A id \in Posted : RulesHold(subs[id].data)

\* an invalid form has been submitted: errors are shown, nothing was posted
OnlyValidPostedWitness ==
    /\ ~RulesHold(form)
    /\ errors # {}
    /\ Posted = {}

(***************************************************************************)
(* C3  Every step in which a call of onSubmit completes (its post          *)
(* fulfilled, rejected or thrown) ends with loading = FALSE.               *)
(***************************************************************************)
BusyClearedOnCompletion ==
    [][SettledIds' # SettledIds => loading' = FALSE]_vars

\* one call ended by a throwing post and one by a rejection, busy cleared
BusyClearedWitness ==
    /\ \E id \in Ids : subs[id].state = "threw"
    /\ \E id \in Ids : subs[id].state = "rejected"
    /\ ~loading

(***************************************************************************)
(* C4  After the page is unmounted no continuation of onSubmit acts: no    *)
(* setLoading call and no navigate call follows the unmount.               *)
(***************************************************************************)
NoEffectAfterUnmount ==
    \A i, j \in 1..Len(log) :
        (log[i].ev = "unmount" /\ i < j) => log[j].ev \notin {"setLoading", "navigate"}

(***************************************************************************)
(* C5  Each fulfilled call has emitted exactly one success toast; each     *)
(* call navigates at most once, only after its post was fulfilled.         *)
(***************************************************************************)
SuccessOnceThenNavigate ==
    \A id \in Ids :
        /\ subs[id].state = "fulfilled" => Cardinality(EvIdx("toast.success", id)) = 1
        /\ subs[id].state # "fulfilled" => EvIdx("toast.success", id) = {}
        /\ Cardinality(EvIdx("navigate", id)) <= 1
        /\ Cardinality(EvIdx("navigate", id)) + Cardinality(timers \cap {id}) <= 1
        /\ \A n \in EvIdx("navigate", id) :
              \E c \in EvIdx("settled", id) : c < n /\ log[c].arg = "fulfilled"

\* a navigation to /dashboard has fired
SuccessOnceThenNavigateWitness ==
    \E id \in Ids : EvIdx("navigate", id) # {} /\ subs[id].state = "fulfilled"

(***************************************************************************)
(* C6  For every completed call the toast precedes the setLoading(false)   *)
(* of that call, and precedes the navigation of that call.                 *)
(***************************************************************************)
ToastBeforeResetAndNavigate ==
    \A id \in Ids :
        /\ id \in SettledIds => Toasts(id) # {} /\ Resets(id) # {}
        /\ \A t \in Toasts(id) :
              /\ \A r \in Resets(id) : t < r
              /\ \A n \in EvIdx("navigate", id) : t < n

\* a call has been fulfilled and navigated, another has been rejected
ToastBeforeResetWitness ==
    /\ \E id \in Ids : EvIdx("navigate", id) # {} /\ Resets(id) # {}
    /\ \E id \in Ids : EvIdx("toast.error", id) # {} /\ Resets(id) # {}

(***************************************************************************)
(* C7  The text of every error toast is the first candidate that is        *)
(* neither absent nor empty among: response.data.message,                  *)
(* response.data.error, the error's own message, "Signup failed.".         *)
(***************************************************************************)
Candidates(err) ==
    << IF err.hasResponse /\ err.hasData THEN err.dataMessage ELSE Undefined,
       IF err.hasResponse /\ err.hasData THEN err.dataError ELSE Undefined,
       err.message,
       "Signup failed." >>

FirstNonEmpty(c) ==
    LET ok == {i \in 1..Len(c) : c[i] \notin {Undefined, ""}}
    IN  c[CHOOSE i \in ok : \A j \in ok : i <= j]

ErrorTextIsFirstNonEmpty ==
    \A i \in ErrorToasts :
        LET err == subs[log[i].id].err
        IN  /\ log[i].arg = FirstNonEmpty(Candidates(err))
            /\ (err.hasData /\ err.dataMessage = "Email taken") => log[i].arg = "Email taken"
            /\ (err.hasData /\ err.dataMessage = Undefined /\ err.dataError = "x")
                  => log[i].arg = "x"

\* body {error: "x"} without message, while the error has its own message
ErrorTextWitness ==
    \E i \in ErrorToasts :
        LET err == subs[log[i].id].err
        IN  /\ err.hasData /\ err.dataMessage = Undefined /\ err.dataError = "x"
            /\ Truthy(err.message)
            /\ log[i].arg = "x"

(***************************************************************************)
(* C8  as stated: a failure whose response body has neither a message nor  *)
(* an error field shows "Signup failed.".                                  *)
(***************************************************************************)
BodyWithoutFields(err) ==
    err.hasResponse /\ err.hasData /\ err.dataMessage = Undefined /\ err.dataError = Undefined

EmptyBodyShowsDefault ==
    \A i \in ErrorToasts :
        BodyWithoutFields(subs[log[i].id].err) => log[i].arg = "Signup failed."

(***************************************************************************)
(* C8  as amended: such a failure shows the error's own message when that  *)
(* is present and non-empty, and "Signup failed." only otherwise.          *)
(***************************************************************************)
EmptyBodyShowsOwnMessageOrDefault ==
    \A i \in ErrorToasts :
        LET err == subs[log[i].id].err
        IN  BodyWithoutFields(err) =>
              log[i].arg = (IF err.message \in {Undefined, ""}
                            THEN "Signup failed." ELSE err.message)

\* both outcomes of a body without fields have been shown
EmptyBodyWitness ==
    /\ \E i \in ErrorToasts :
          BodyWithoutFields(subs[log[i].id].err) /\ log[i].arg = "Signup failed."
    /\ \E i \in ErrorToasts :
          BodyWithoutFields(subs[log[i].id].err)
          /\ log[i].arg = "Request failed with status code 400"

(***************************************************************************)
(* C9  Every payload posted has the name with its surrounding white space  *)
(* removed, the e-mail with its surrounding white space removed and its    *)
(* letters in lower case, and the password exactly as typed.               *)
(***************************************************************************)
IsTrimOf(t, s) ==
    \E a, b \in 0..Len(s) :
        /\ a + b <= Len(s)
        /\ t = SubSeq(s, a + 1, Len(s) - b)
        /\ \A i \in 1..a : s[i] = " "
        /\ \A i \in (Len(s) - b + 1)..Len(s) : s[i] = " "
        /\ t # <<>> => (t[1] # " " /\ t[Len(t)] # " ")

IsLowerOf(t, s) ==
    /\ Len(t) = Len(s)
    /\ \A i \in 1..Len(s) :
          /\ t[i] \notin UpperLetters
          /\ s[i] \notin UpperLetters => t[i] = s[i]
          /\ s[i] \in UpperLetters => <<s[i], t[i]>> \in
                {<<"A", "a">>, <<"B", "b">>, <<"C", "c">>,
                 <<"M", "m">>, <<"O", "o">>, <<"P", "p">>}

PayloadIsNormalized ==
    \A id \in Posted :
        LET d == subs[id].data
            p == subs[id].payload
        IN  /\ IsTrimOf(p.name, d.name)
            /\ \E i \in 1..(Len(d.email) + 1), j \in 0..Len(d.email) :
                  /\ IsTrimOf(SubSeq(d.email, i, j), d.email)
                  /\ IsLowerOf(p.email, SubSeq(d.email, i, j))
            /\ p.password = d.password

\* a posted payload whose name was trimmed and whose e-mail was lowered,
\* and one whose password holds spaces and capitals
PayloadIsNormalizedWitness ==
    /\ \E id \in Posted :
          /\ subs[id].payload.name # subs[id].data.name
          /\ subs[id].payload.email # subs[id].data.email
    /\ \E id \in Posted : subs[id].data.password = PasswordSpaced

(***************************************************************************)
(* C10 as stated: the values " Al ", " A@B.COM ", "secret1" never get a    *)
(* validation error, and their request carries "Al", "a@b.com", "secret1". *)
(***************************************************************************)
ExampleInput ==
    [name |-> NameSpAlSp, email |-> EmailSpUpperSp, password |-> PasswordSecret1]
ExampleUnpadded ==
    [name |-> NameSpAlSp, email |-> EmailUpper, password |-> PasswordSecret1]
ExamplePayload ==
    [name |-> NameAl, email |-> EmailLower, password |-> PasswordSecret1]

BusyIffOneOutstanding == loading <=> Cardinality(Outstanding) = 1

\* busy with the second call in flight after a first call whose post threw
BusyIffOneOutstandingWitness ==
    /\ loading
    /\ Outstanding = {2}
    /\ subs[1].state = "threw"

(***************************************************************************)
(* C12 A submit of values that violate a rule changes the validation       *)
(* errors and nothing else: loading stays FALSE, no effect is logged (no   *)
(* toast, no request, no timer), no call of onSubmit is recorded.          *)
(***************************************************************************)
InvalidSubmitOnlySetsErrors ==
    [][(~RulesHold(form) /\ errors' # errors) =>
          /\ loading = FALSE /\ loading' = FALSE
          /\ log' = log
          /\ timers' = timers
          /\ subs' = subs
          /\ form' = form
          /\ mounted' = mounted
          /\ showPassword' = showPassword]_vars

\* after a completed call, an invalid form has been submitted
InvalidSubmitWitness ==
    /\ ~RulesHold(form)
    /\ errors # {}
    /\ SettledIds = {1}
    /\ Len(subs) = 1
    /\ ~loading

(***************************************************************************)
(* C13 Every failed call (post rejected or thrown) has run to its end with *)
(* exactly one error toast, no success toast and no navigation timer.      *)
(***************************************************************************)
Failed == {id \in Ids : subs[id].state \in {"rejected", "threw"}}

FailureGivesOneErrorToast ==
    \A id \in Failed :
        /\ Cardinality(EvIdx("toast.error", id)) = 1
        /\ EvIdx("toast.success", id) = {}
        /\ EvIdx("setTimeout", id) = {}
        /\ EvIdx("navigate", id) = {}
        /\ id \notin timers
        /\ Resets(id) # {}

\* a transport failure and a non-2xx response have both been handled
FailureGivesOneErrorToastWitness ==
    /\ \E id \in Failed : ~subs[id].err.hasResponse
    /\ \E id \in Failed : subs[id].err.hasResponse

(***************************************************************************)
(* C14 Provided every request is answered, every call that is in flight    *)
(* is eventually settled with loading FALSE; once a call has failed and    *)
(* nothing is outstanding the mounted form accepts a submit again, a       *)
(* submit of valid values then posts a new request, and a request is only  *)
(* ever posted by a step taken from a state that accepts a submit, never   *)
(* by the step that settles a call.                                        *)
(***************************************************************************)
ReturnsToIdleAndRetryable ==
    /\ \A id \in 1..MaxSubmits :
          (id \in Outstanding) ~> (id \in SettledIds /\ ~loading)
    /\ []((Failed # {} /\ Outstanding = {} /\ mounted) => SubmitEnabled)
    /\ [][(SubmitEnabled /\ RulesHold(form) /\ subs' # subs)
            => Posted' = Posted \cup {Len(subs) + 1}]_vars
    /\ [][Posted' # Posted
            => (SubmitEnabled /\ Cardinality(Posted') = Cardinality(Posted) + 1)]_vars

\* a valid resubmission after a failure has posted a new request
ResubmittedAfterFailure ==
    /\ subs # <<>>
    /\ subs[1].state = "rejected"
    /\ 2 \in Outstanding

(***************************************************************************)
(* C15 Every submit leaves in errors exactly the messages of the rules the *)
(* submitted values violate: the name message iff the untrimmed name has   *)
(* fewer than 2 characters, the e-mail message iff the e-mail does not     *)
(* match local-part@domain, the password message iff the password has      *)
(* fewer than 6 characters; onSubmit is called iff no rule is violated.    *)
(***************************************************************************)
ExpectedErrors(data) ==
    {m \in {<<"name", "Name must be at least 2 characters">>,
            <<"email", "Enter a valid email address">>,
            <<"password", "Password must be at least 6 characters">>} :
        \/ m[1] = "name" /\ Len(data.name) < 2
        \/ m[1] = "email" /\ ~EmailOk(data.email)
        \/ m[1] = "password" /\ Len(data.password) < 6}

ValidationReportsExactly ==
    [][(SubmitEnabled /\ (errors' # errors \/ subs' # subs)) =>
          /\ errors' = ExpectedErrors(form)
          /\ subs' # subs <=> ExpectedErrors(form) = {}]_vars

\* " A" with a malformed e-mail and a short password: two messages, none for
\* the name, whose untrimmed length is 2
ValidationReportsWitness ==
    /\ form = [name |-> NameSpA, email |-> EmailDotted, password |-> PasswordShort]
    /\ errors = {<<"email", EmailMessage>>, <<"password", PasswordMessage>>}

(***************************************************************************)
(* C16 as stated: every payload posted satisfies the three rules itself;   *)
(* in particular its name has at least 2 characters.                       *)
(***************************************************************************)
PayloadSatisfiesRules ==
    \A id \in Posted : RulesHold(subs[id].payload)

(***************************************************************************)
(* C16 as amended: every payload posted has an e-mail that matches the     *)
(* e-mail rule and a password of at least 6 characters; its name is the    *)
(* trimmed form of a name of at least 2 characters and can itself be       *)
(* shorter than 2.                                                         *)
(***************************************************************************)
PayloadKeepsEmailAndPasswordRules ==
    \A id \in Posted :
        /\ EmailOk(subs[id].payload.email)
        /\ Len(subs[id].payload.password) >= 6
        /\ Len(subs[id].data.name) >= 2
        /\ IsTrimOf(subs[id].payload.name, subs[id].data.name)

\* " A" was accepted and posted as "A"
PayloadShortNameWitness ==
    \E id \in Posted :
        /\ subs[id].data.name = NameSpA
        /\ subs[id].payload.name = NameA
        /\ subs[id].data.password = PasswordSpaced

(***************************************************************************)
(* C17 Once a call has been fulfilled no further request is posted and no  *)
(* further navigation is scheduled on that mount, and at most one          *)
(* navigation to /dashboard fires per mount.                               *)
(***************************************************************************)
Navigations == {i \in 1..Len(log) : log[i].ev = "navigate"}

NothingAfterSuccess ==
    /\ \A i, j \in 1..Len(log) :
          (log[i].ev = "settled" /\ log[i].arg = "fulfilled" /\ i < j)
              => /\ log[j].ev # "post"
                 /\ log[j].ev = "setTimeout" => log[j].id = log[i].id
    /\ Cardinality(Navigations) <= 1

(***************************************************************************)
(* C18 The toggle is available whenever the page is mounted, also while a  *)
(* request is in flight; a step that changes showPassword negates it (so   *)
(* two toggles restore it) and changes nothing else: not the form, the     *)
(* errors, loading, the calls, the timers, the log or the mount.           *)
(***************************************************************************)
ToggleIsIndependent ==
    /\ [](mounted => ENABLED ToggleShowPassword)
    /\ [][showPassword' # showPassword =>
            /\ showPassword' = ~showPassword
            /\ UNCHANGED <<form, errors, loading, mounted, subs, timers, log>>]_vars

\* the password is shown while a request is in flight and the form holds
\* values that violate a rule, with no validation error reported
ToggleWitness ==
    /\ showPassword
    /\ loading
    /\ Outstanding # {}
    /\ ~RulesHold(form)
    /\ errors = {}

====
